---- MODULE Spec2Model ----
(***************************************************************************)
(* A model of lib/smtp-connection.js: one SMTPConnection, the per-socket   *)
(* SMTP protocol state machine, together with the collaborators it talks   *)
(* to (the SMTPStream line parser, the socket, the SASL mechanisms and the *)
(* server's onConnect / onMailFrom / onRcptTo / onData / onAuth hooks).    *)
(*                                                                         *)
(* Strings.  TLC cannot take a string apart, so a JavaScript string is a   *)
(* sequence of lexemes: every separator the code splits on (" ", ":", "=", *)
(* "<", ">", "@") is a lexeme of its own and every maximal run of other    *)
(* characters is one lexeme.  "MAIL FROM:<s@x>" is                         *)
(*   <<"MAIL", " ", "FROM", ":", "<", "s", "@", "x", ">">>.                *)
(* split, trim, join and the regular expressions of the code are computed  *)
(* on these sequences; toUpperCase, toLowerCase and punycode.toUnicode are *)
(* tables over the lexemes that occur.  The empty string is <<>>.          *)
(*                                                                         *)
(* A JavaScript value that is "false or an object" (session.user,          *)
(* envelope.mailFrom, args, hostNameAppearsAs) is <<>> for false and <<v>> *)
(* for the object v (the string itself for a string).                      *)
(***************************************************************************)
EXTENDS Integers, Sequences, FiniteSets, TLC

(***************************************************************************)
(* Bounds of the model.                                                    *)
(***************************************************************************)
\* DATA commands completed on one connection (caps _transactionCounter).
MaxTransactions == 1

(***************************************************************************)
(* Program constants.                                                      *)
(***************************************************************************)
\* "if (this._unrecognizedCommands >= 10)": the unrecognized-command threshold.
MaxUnrecognized == 10
\* "if (this._unauthenticatedCommands >= 10)": the unauthenticated-command threshold.
MaxUnauthenticated == 10

None == <<>>
Some(v) == <<v>>

(***************************************************************************)
(* String helpers (JavaScript's String.prototype methods on lexemes).      *)
(***************************************************************************)
\* String.prototype.toUpperCase, lexeme by lexeme.
UpperLexeme(w) ==
    CASE w = "helo" -> "HELO"
      [] w = "mail" -> "MAIL"
      [] w = "from" -> "FROM"
      [] w = "rcpt" -> "RCPT"
      [] w = "to" -> "TO"
      [] w = "get" -> "GET"
      [] w = "http/1.0" -> "HTTP/1.0"
      [] w = "addr" -> "ADDR"
      [] w = "plain" -> "PLAIN"
      [] w = "Host.Example" -> "HOST.EXAMPLE"
      [] w = "a.example" -> "A.EXAMPLE"
      [] w = "s" -> "S"
      [] w = "a" -> "A"
      [] w = "b" -> "B"
      [] w = "x" -> "X"
      [] w = "bob" -> "BOB"
      [] w = "dG9rZW4=" -> "DG9RZW4="
      [] w = "[unavailable]" -> "[UNAVAILABLE]"
      [] OTHER -> w

\* String.prototype.toLowerCase, lexeme by lexeme.
LowerLexeme(w) ==
    CASE w = "Host.Example" -> "host.example"
      [] w = "A" -> "a"
      [] w = "Bob" -> "bob"
      [] w = "Relay.Example" -> "relay.example"
      [] w = "FE80::1" -> "fe80::1"
      [] OTHER -> w

toUpperCase(s) == [i \in 1..Len(s) |-> UpperLexeme(s[i])]
toLowerCase(s) == [i \in 1..Len(s) |-> LowerLexeme(s[i])]

\* punycode.toUnicode on a domain: an "xn--" label is decoded, anything else is kept.
punycodeToUnicode(d) ==
    [i \in 1..Len(d) |->
        IF d[i] = "xn--bcher-kva.example" THEN "b{U+00FC}cher.example" ELSE d[i]]

\* String.prototype.split(sep) for a one-character separator: the pieces between the
\* separators, empty pieces included.
RECURSIVE SplitFrom(_, _, _, _)
SplitFrom(s, sep, i, cur) ==
    IF i > Len(s) THEN <<cur>>
    ELSE IF s[i] = sep THEN <<cur>> \o SplitFrom(s, sep, i + 1, <<>>)
    ELSE SplitFrom(s, sep, i + 1, Append(cur, s[i]))

split(s, sep) == SplitFrom(s, sep, 1, <<>>)

\* Array.prototype.join(sep).
RECURSIVE join(_, _)
join(parts, sep) ==
    IF parts = <<>> THEN <<>>
    ELSE IF Len(parts) = 1 THEN parts[1]
    ELSE parts[1] \o <<sep>> \o join(Tail(parts), sep)

\* String.prototype.trim: leading and trailing blanks removed.
RECURSIVE trimLeft(_)
trimLeft(s) == IF s # <<>> /\ Head(s) = " " THEN trimLeft(Tail(s)) ELSE s

RECURSIVE trimRight(_)
trimRight(s) ==
    IF s # <<>> /\ s[Len(s)] = " " THEN trimRight(SubSeq(s, 1, Len(s) - 1)) ELSE s

trim(s) == trimRight(trimLeft(s))

\* s.split(/\s+/): the pieces between runs of blanks.  A string that is empty or
\* starts or ends with a blank yields an empty piece there, as in JavaScript.
RECURSIVE SplitRunsFrom(_, _, _)
SplitRunsFrom(s, i, cur) ==
    IF i > Len(s) THEN <<cur>>
    ELSE IF s[i] = " "
         THEN IF i > 1 /\ s[i - 1] = " "
              THEN SplitRunsFrom(s, i + 1, cur)
              ELSE <<cur>> \o SplitRunsFrom(s, i + 1, <<>>)
    ELSE SplitRunsFrom(s, i + 1, Append(cur, s[i]))

splitWhitespace(s) == SplitRunsFrom(s, 1, <<>>)

(***************************************************************************)
(* The command lines a client sends in this model.                         *)
(***************************************************************************)
L_EHLO == <<"EHLO", " ", "Host.Example">>
L_HELO == <<"helo", " ", "a.example">>
L_EHLO_noarg == <<"EHLO">>
L_HELO_extra == <<"HELO", " ", "a.example", " ", "b.example">>
L_MAIL == <<"MAIL", " ", "FROM", ":", "<", "s", "@", "x", ">">>
L_MAIL_nobrackets == <<"MAIL", " ", "FROM", ":", "s", "@", "x">>
L_MAIL_big == <<"MAIL", " ", "FROM", ":", "<", "s", "@", "x", ">", " ", "SIZE", "=", "9">>
L_RCPT_A == <<"RCPT", " ", "TO", ":", "<", "A", "@", "x", ">">>
L_RCPT_a == <<"rcpt", " ", "to", ":", "<", "a", "@", "x", ">", " ", "NOTIFY", "=", "NEVER">>
L_RCPT_b == <<"RCPT", " ", "TO", ":", "<", "b", "@", "xn--bcher-kva.example", ">">>
L_RCPT_empty == <<"RCPT", " ", "TO", ":", "<", ">">>
L_DATA == <<"DATA">>
L_RSET == <<"RSET">>
L_NOOP == <<"NOOP">>
L_QUIT == <<"QUIT">>
L_FOO == <<"FOO">>
L_HTTP == <<"get", " ", "/index.html", " ", "http/1.0">>
L_STARTTLS == <<"STARTTLS">>
L_AUTH_PLAIN == <<"AUTH", " ", "plain">>
L_AUTH_PLAIN_token == <<"AUTH", " ", "PLAIN", " ", "dG9rZW4=">>
L_AUTH_FOO == <<"AUTH", " ", "FOO">>
L_token == <<"dG9rZW4=">>
L_XCLIENT_ADDR == <<"XCLIENT", " ", "ADDR", "=", "FE80::1", " ", "NAME", "=", "Relay.Example">>
L_XCLIENT_LOGIN == <<"XCLIENT", " ", "LOGIN", "=", "Bob">>
L_XCLIENT_LOGIN_none == <<"XCLIENT", " ", "LOGIN", "=", "[unavailable]">>
L_XCLIENT_mixed == <<"XCLIENT", " ", "NAME", "=", "Relay.Example", " ", "BOGUS", "=", "1">>
L_PROXY == <<"PROXY", " ", "TCP6", " ", "FE80::1", " ", "FE80::2">>

(***************************************************************************)
(* _parseAddressCommand(name, command): {address, args} as <<record>>, or  *)
(* <<>> for false.                                                         *)
(***************************************************************************)
\* /^<[^<>]*>$/.test(address)
IsBracketed(a) ==
    /\ Len(a) >= 2
    /\ a[1] = "<"
    /\ a[Len(a)] = ">"
    /\ \A i \in 2..(Len(a) - 1) : a[i] \notin {"<", ">"}

\* "value = part.join('=') || true": the value of a parameter without "=value".
TrueSentinel == <<"true">>

\* parts.forEach(...): the parameters, a later key overriding an earlier one.
RECURSIVE AddressArgs(_, _)
AddressArgs(parts, args) ==
    IF parts = <<>> THEN args
    ELSE LET part == split(Head(parts), "=")
             key == toUpperCase(Head(part))
             rest == join(Tail(part), "=")
             value == IF rest = <<>> THEN TrueSentinel ELSE rest
             prev == IF args = None THEN (key :> value) ELSE args[1]
         IN  AddressArgs(Tail(parts), Some((key :> value) @@ prev))

ParseAddressCommand(name, line) ==
    LET parts0 == split(line, ":")
        command == toUpperCase(trim(Head(parts0)))
        parts == splitWhitespace(trim(join(Tail(parts0), ":")))
        address0 == Head(parts)
        bracketed == IsBracketed(address0)
        address1 == IF bracketed THEN SubSeq(address0, 2, Len(address0) - 1) ELSE address0
        args == AddressArgs(Tail(parts), None)
        at == split(address1, "@")
        badAt == Len(at) # 2 \/ at[1] = <<>> \/ at[2] = <<>>
        address == IF address1 # <<>> /\ ~badAt
                   THEN at[1] \o <<"@">> \o punycodeToUnicode(at[2])
                   ELSE address1
        invalid == ~bracketed \/ (address1 # <<>> /\ badAt)
    IN  IF toUpperCase(trim(name)) # command THEN None
        ELSE IF invalid THEN None
        ELSE Some([address |-> address, args |-> args])

AllLines ==
    {L_EHLO, L_HELO, L_EHLO_noarg, L_HELO_extra, L_MAIL, L_MAIL_nobrackets, L_MAIL_big, L_RCPT_A,
     L_RCPT_a, L_RCPT_b, L_RCPT_empty, L_DATA, L_RSET, L_NOOP, L_QUIT, L_FOO, L_HTTP,
     L_STARTTLS, L_AUTH_PLAIN, L_AUTH_PLAIN_token, L_AUTH_FOO, L_token, L_XCLIENT_ADDR,
     L_XCLIENT_LOGIN, L_XCLIENT_LOGIN_none, L_XCLIENT_mixed, L_PROXY}

\* ParseAddressCommand on every line of the model, computed once.
AddressCommands ==
    [name \in {<<"mail", " ", "from">>, <<"rcpt", " ", "to">>}, line \in AllLines |->
        ParseAddressCommand(name, line)]

_parseAddressCommand(name, line) == AddressCommands[name, line]

(***************************************************************************)
(* The state.                                                              *)
(***************************************************************************)
VARIABLES
    conn,        \* the fields of the SMTPConnection object, this.session apart
    session,     \* this.session
    socket,      \* the transport: this._socket and, during an upgrade, the TLS socket
    parser,      \* the SMTPStream this._parser was built as
    dataStream,  \* the stream startDataMode returned (the object, whoever refers to it)
    server,      \* this._server: its options and its connections registry
    pending,     \* asynchronous work in flight: timers, collaborator callouts
    client,      \* the command lines the client of this connection sends
    dataCmd,     \* history of the DATA command in progress or last completed
    step         \* what the last step was: the event, the line, the handler, the replies

vars ==
    <<conn, session, socket, parser, dataStream, server, pending, client, dataCmd, step>>

\* The whole state as one record: a handler is a function from state to state.
Cur ==
    [conn |-> conn, session |-> session, socket |-> socket, parser |-> parser,
     dataStream |-> dataStream, server |-> server, pending |-> pending,
     client |-> client, dataCmd |-> dataCmd, step |-> step]

Commit(t) ==
    /\ conn' = t.conn
    /\ session' = t.session
    /\ socket' = t.socket
    /\ parser' = t.parser
    /\ dataStream' = t.dataStream
    /\ server' = t.server
    /\ pending' = t.pending
    /\ client' = t.client
    /\ dataCmd' = t.dataCmd
    /\ step' = t.step

\* "this.session = false": no session yet.  Reading a field of false gives undefined,
\* which is falsy, so user is <<>>.
NoSession ==
    [exists |-> FALSE, remoteAddress |-> <<>>, clientHostname |-> <<>>,
     hostNameAppearsAs |-> <<>>,
     envelope |-> [mailFrom |-> None, rcptTo |-> <<>>],
     user |-> None, transaction |-> 0, isWizard |-> FALSE]

\* The start of a step: the record of the previous step is dropped.  before holds the
\* envelope and the count of unrecognized commands the step starts from.
Begin(s, op, line) ==
    [s EXCEPT !.step = [op |-> op, line |-> line, handler |-> "", sent |-> <<>>,
                        before |-> [envelope |-> s.session.envelope,
                                    unrecognized |-> s.conn._unrecognizedCommands]]]

(***************************************************************************)
(* send, close and the continuation callbacks.                             *)
(***************************************************************************)
\* SMTPConnection.prototype.send: the payload is written when the socket is writable.
\* data is the list of the response's lines (one line for a string).
send(s, code, data) ==
    [s EXCEPT !.step.sent =
        Append(@, [code |-> code, data |-> data, socket |-> s.socket.current,
                   written |-> s.socket.writable])]

\* SMTPConnection.prototype.close.
close(s) ==
    [s EXCEPT !.socket.writable = IF ~s.socket.destroyed /\ @ THEN FALSE ELSE @,
              !.server.connections = FALSE,
              !.conn._closing = TRUE]

\* The continuation the parser hands to oncommand: the parser reads on.
callback(s) == [s EXCEPT !.parser.waiting = FALSE]

\* setImmediate(callback)
setImmediate(s) == [s EXCEPT !.pending.immediate = TRUE]

\* An uncaught TypeError: a property of null or of false.x is read.
throwTypeError(s) == [s EXCEPT !.pending.crashed = TRUE]

(***************************************************************************)
(* _isSupported and _startSession.                                         *)
(***************************************************************************)
\* The verbs v for which this['handler_' + v] is a function.
HandlerVerbs ==
    {<<"EHLO">>, <<"HELO">>, <<"QUIT">>, <<"NOOP">>, <<"RSET">>, <<"HELP">>,
     <<"VRFY">>, <<"XCLIENT">>, <<"STARTTLS">>, <<"AUTH">>, <<"MAIL">>, <<"RCPT">>,
     <<"DATA">>, <<"WIZ">>, <<"SHELL">>, <<"KILL">>}

_isSupported(s, command) ==
    LET c == toUpperCase(trim(command))
    IN  c \notin s.server.options.disabledCommands /\ c \in HandlerVerbs

\* A faulty variant: the envelope outlives the transaction.
_startSession_KeepingEnvelope(s) ==
    [s EXCEPT !.session =
        [exists |-> TRUE,
         remoteAddress |-> s.conn.remoteAddress,
         clientHostname |-> s.conn.clientHostname,
         hostNameAppearsAs |-> s.conn.hostNameAppearsAs,
         envelope |-> s.session.envelope,
         user |-> s.session.user,
         transaction |-> s.conn._transactionCounter + 1,
         isWizard |-> FALSE]]

\* A faulty variant: the new session has no user.
_startSession_DroppingUser(s) ==
    [s EXCEPT !.session =
        [exists |-> TRUE,
         remoteAddress |-> s.conn.remoteAddress,
         clientHostname |-> s.conn.clientHostname,
         hostNameAppearsAs |-> s.conn.hostNameAppearsAs,
         envelope |-> [mailFrom |-> None, rcptTo |-> <<>>],
         user |-> None,
         transaction |-> s.conn._transactionCounter + 1,
         isWizard |-> FALSE]]

_startSession(s) ==
    [s EXCEPT !.session =
        [exists |-> TRUE,
         remoteAddress |-> s.conn.remoteAddress,
         clientHostname |-> s.conn.clientHostname,
         hostNameAppearsAs |-> s.conn.hostNameAppearsAs,
         envelope |-> [mailFrom |-> None, rcptTo |-> <<>>],
         user |-> s.session.user,
         transaction |-> s.conn._transactionCounter + 1,
         isWizard |-> FALSE]]

\* this.name + ' ESMTP' + (banner ? ' ' + banner : '')
Greeting == <<"<name> ESMTP">>

(***************************************************************************)
(* connectionReady and the callbacks it leaves.                            *)
(***************************************************************************)
\* The callback of this._server.onConnect.  next tells whether connectionReady was
\* given a function (the parser's continuation, in proxy mode).
onConnectCb(s, err, next) ==
    LET s1 == IF err # None
              THEN close(send(s, IF err[1].responseCode # 0 THEN err[1].responseCode ELSE 554,
                              <<err[1].message>>))
              ELSE s
        s2 == send([s1 EXCEPT !.conn._ready = TRUE], 220, Greeting)
    IN  IF next THEN callback(s2) ELSE s2

\* reverseCb: hostnames is always undefined, dns.reverse being called with undefined.
reverseCb(s, next) ==
    IF s.conn._closing \/ s.conn._closed THEN s
    ELSE LET s1 == [s EXCEPT !.conn.clientHostname = <<"[">> \o s.conn.remoteAddress \o <<"]">>]
             s2 == _startSession(s1)
         IN  [s2 EXCEPT !.pending.onConnect = Some([next |-> next])]

\* connectionReady(next).  dns.reverse(undefined, reverseCb) either throws, and
\* reverseCb runs at once from the catch, or it reports the failure later: sync says
\* which.
connectionReady(s, next, sync) ==
    IF sync THEN reverseCb(s, next)
    ELSE [s EXCEPT !.pending.reverse = Some([next |-> next])]

(***************************************************************************)
(* The command handlers.  Each takes the state and the command line and    *)
(* returns the state it leaves.                                            *)
(***************************************************************************)
\* The feature lines of the EHLO reply.
EhloFeatures(s) ==
    <<"PIPELINING", "8BITMIME", "SMTPUTF8">>
    \o (IF s.server.options.authMethods # <<>> /\ _isSupported(s, <<"AUTH">>)
        THEN <<"AUTH <authMethods>">> ELSE <<>>)
    \o (IF ~s.conn.secure /\ _isSupported(s, <<"STARTTLS">>)
           /\ ~s.server.options.hideSTARTTLS
        THEN <<"STARTTLS">> ELSE <<>>)
    \o (IF s.server.options.size # 0 THEN <<"SIZE <size>">> ELSE <<>>)
    \o (IF <<"ADDR">> \notin DOMAIN s.conn._xclient /\ s.server.options.useXClient
           /\ _isSupported(s, <<"XCLIENT">>)
        THEN <<"XCLIENT NAME ADDR PORT PROTO HELO LOGIN">> ELSE <<>>)

handler_EHLO(s, command) ==
    LET parts == splitWhitespace(trim(command))
        hostname == IF Len(parts) >= 2 THEN parts[2] ELSE <<>>
    IN  IF Len(parts) # 2
        THEN callback(send(s, 501, <<"Error: syntax: EHLO hostname">>))
        ELSE LET s1 == [s EXCEPT !.conn.hostNameAppearsAs = toLowerCase(hostname)]
                 s2 == _startSession(s1)
             IN  callback(send(s2, 250,
                     <<"OK: Nice to meet you <clientHostname>">> \o EhloFeatures(s1)))

handler_HELO(s, command) ==
    LET parts == splitWhitespace(trim(command))
        hostname == IF Len(parts) >= 2 THEN parts[2] ELSE <<>>
    IN  IF Len(parts) # 2
        THEN callback(send(s, 501, <<"Error: Syntax: HELO hostname">>))
        ELSE LET s1 == [s EXCEPT !.conn.hostNameAppearsAs = toLowerCase(hostname)]
                 s2 == _startSession(s1)
             IN  callback(send(s2, 250, <<"OK: Nice to meet you <clientHostname>">>))

handler_QUIT(s, command) == callback(close(send(s, 221, <<"Bye">>)))

\* A faulty variant: NOOP answers and never calls the continuation.
handler_NOOP_Pausing(s, command) == send(s, 250, <<"OK">>)

handler_NOOP(s, command) == callback(send(s, 250, <<"OK">>))

handler_RSET(s, command) == callback(send(_startSession(s), 250, <<"Flushed">>))

handler_HELP(s, command) ==
    callback(send(s, 214, <<"See https://tools.ietf.org/html/rfc5321 for details">>))

handler_VRFY(s, command) ==
    callback(send(s, 252, <<"Try to send something. No promises though">>))

(***************************************************************************)
(* handler_XCLIENT.                                                        *)
(***************************************************************************)
XclientAllowedKeys ==
    {<<"NAME">>, <<"ADDR">>, <<"PORT">>, <<"PROTO">>, <<"HELO">>, <<"LOGIN">>}

\* Map.prototype.set on a map kept as a sequence of <<key, value>> in insertion
\* order: a key already present keeps its place and takes the new value.
MapSet(m, key, value) ==
    IF \E i \in 1..Len(m) : m[i][1] = key
    THEN [i \in 1..Len(m) |-> IF m[i][1] = key THEN <<key, value>> ELSE m[i]]
    ELSE Append(m, <<key, value>>)

\* "parse and validate arguments": the map data, or "invalid" at the first bad token.
RECURSIVE XclientParse(_, _)
XclientParse(parts, data) ==
    IF parts = <<>> THEN [ok |-> TRUE, data |-> data]
    ELSE LET value0 == split(Head(parts), "=")
             key == Head(value0)
             value1 == Tail(value0)
         IN  IF Len(value1) # 1 \/ toUpperCase(key) \notin XclientAllowedKeys
             THEN [ok |-> FALSE, data |-> data]
             ELSE LET value == IF toUpperCase(value1[1])
                                    \in {<<"[UNAVAILABLE]">>, <<"[TEMPUNAVAIL]">>}
                               THEN <<>> ELSE value1[1]
                  IN  XclientParse(Tail(parts), MapSet(data, toUpperCase(key), value))

\* A faulty variant: a new ADDR leaves hostNameAppearsAs as it is.
XclientApply_KeepingHelo(s, key, value) ==
    LET s1 ==
          CASE key = <<"LOGIN">> ->
                 IF value = <<>> THEN s
                 ELSE [s EXCEPT !.session.user = Some([username |-> value])]
            [] key = <<"ADDR">> ->
                 IF value # <<>>
                 THEN [s EXCEPT !.conn.remoteAddress = toLowerCase(value)]
                 ELSE s
            [] key = <<"NAME">> ->
                 [s EXCEPT !.conn.clientHostname = toLowerCase(value)]
            [] OTHER -> s
    IN  [s1 EXCEPT !.conn._xclient = (key :> value) @@ @]

\* One round of data.forEach: the effect of one key, then this._xclient.set(key, value).
\* "if (!net.isIP)" tests a function, which is truthy: that branch never runs.
XclientApply(s, key, value) ==
    LET s1 ==
          CASE key = <<"LOGIN">> ->
                 IF value = <<>> THEN s
                 ELSE [s EXCEPT !.session.user = Some([username |-> value])]
            [] key = <<"ADDR">> ->
                 IF value # <<>>
                 THEN [s EXCEPT !.conn.remoteAddress = toLowerCase(value),
                                !.conn.hostNameAppearsAs = <<>>]
                 ELSE s
            [] key = <<"NAME">> ->
                 [s EXCEPT !.conn.clientHostname = toLowerCase(value)]
            [] OTHER -> s
    IN  [s1 EXCEPT !.conn._xclient = (key :> value) @@ @]

RECURSIVE XclientApplyAll(_, _)
XclientApplyAll(s, data) ==
    IF data = <<>> THEN s
    ELSE XclientApplyAll(XclientApply(s, Head(data)[1], Head(data)[2]), Tail(data))

\* A faulty variant: the tokens read before the bad one take effect.
XclientBadToken_Applying(s, data) ==
    callback(send(XclientApplyAll(s, data), 501, <<"Error: Bad command parameter syntax">>))

\* The validation loop meets a bad token: data, filled so far, is dropped.
XclientBadToken(s, data) ==
    callback(send(s, 501, <<"Error: Bad command parameter syntax">>))

\* A faulty variant: XCLIENT stays allowed after ADDR.
XclientSpent_Never(s) == FALSE

\* "this._xclient.has('ADDR')"
XclientSpent(s) == <<"ADDR">> \in DOMAIN s.conn._xclient

handler_XCLIENT(s, command) ==
    IF XclientSpent(s) \/ ~s.server.options.useXClient
    THEN callback(send(s, 550, <<"Error: Not allowed">>))
    ELSE IF s.session.envelope.mailFrom # None
    THEN callback(send(s, 503, <<"Error: Mail transaction in progress">>))
    ELSE LET parts == Tail(splitWhitespace(trim(command)))
         IN  IF parts = <<>>
             THEN callback(send(s, 501, <<"Error: Bad command parameter syntax">>))
             ELSE LET parsed == XclientParse(parts, <<>>)
                  IN  IF ~parsed.ok
                      THEN XclientBadToken(s, parsed.data)
                      ELSE LET s1 == XclientApplyAll(s, parsed.data)
                               s2 == IF s1.conn.remoteAddress # <<>>
                                        /\ s1.conn.clientHostname = <<>>
                                     THEN [s1 EXCEPT !.conn.clientHostname =
                                              <<"[">> \o s1.conn.remoteAddress \o <<"]">>]
                                     ELSE s1
                           IN  callback(send(s2, 220, Greeting))

(***************************************************************************)
(* handler_STARTTLS and the 'secure' event of the TLS socket.              *)
(***************************************************************************)
handler_STARTTLS(s, command) ==
    IF s.conn.secure
    THEN callback(send(s, 554, <<"Error: TLS already active">>))
    ELSE LET s1 == send(s, 220, <<"Ready to start TLS">>)
             s2 == [s1 EXCEPT !.parser.piped = "none", !.conn._upgrading = TRUE]
             s3 == callback(s2)
         IN  [s3 EXCEPT !.socket.handshake = TRUE]

\* A faulty variant: this._socket stays the raw socket.
onSecure_KeepingSocket(s) ==
    [s EXCEPT !.conn.secure = TRUE,
              !.socket.handshake = FALSE,
              !.conn._upgrading = FALSE,
              !.parser.piped = "tls"]

onSecure(s) ==
    [s EXCEPT !.conn.secure = TRUE,
              !.socket.current = "tls",
              !.socket.handshake = FALSE,
              !.conn._upgrading = FALSE,
              !.parser.piped = "tls"]

(***************************************************************************)
(* SASL (lib/sasl.js): a mechanism may send a 334 challenge and queue a    *)
(* _nextHandler for the client's next line, and in the end asks the        *)
(* server's onAuth, which sets session.user on success.                    *)
(***************************************************************************)
\* The mechanisms m for which sasl['SASL_' + m] is a function.
SaslMechanisms == {<<"PLAIN">>}

\* Whether a PLAIN token decodes to the three fields authzid, user, password.
IsPlainToken(token) == token = <<"dG9rZW4=">>

\* SASL.PLAIN_token: a malformed token is refused, a well-formed one goes to onAuth.
PLAIN_token(s, token) ==
    IF ~IsPlainToken(trim(token))
    THEN callback(send(s, 500, <<"Error: invalid userdata">>))
    ELSE [s EXCEPT !.pending.onAuth = TRUE]

\* sasl.SASL_PLAIN(args, callback)
SASL_PLAIN(s, args) ==
    IF Len(args) > 1
    THEN callback(send(s, 501, <<"Error: syntax: AUTH PLAIN token">>))
    ELSE IF args = <<>>
    THEN callback(send([s EXCEPT !.conn._nextHandler = Some("PLAIN_token")], 334, <<>>))
    ELSE PLAIN_token(s, args[1])

\* The callback of onAuth.
onAuthCb(s, ok) ==
    IF ok
    THEN callback(send([s EXCEPT !.session.user = Some([username |-> <<"bob">>])],
                       235, <<"Authentication successful">>))
    ELSE callback(send(s, 535, <<"Error: Authentication credentials invalid">>))

(***************************************************************************)
(* handler_AUTH, handler_MAIL, handler_RCPT.                               *)
(***************************************************************************)
\* "if (!this.secure && this._isSupported('STARTTLS') && !...hideSTARTTLS)"
MustStartTls_Never(s) == FALSE

MustStartTls(s) ==
    ~s.conn.secure /\ _isSupported(s, <<"STARTTLS">>) /\ ~s.server.options.hideSTARTTLS

handler_AUTH(s, command) ==
    LET args0 == Tail(splitWhitespace(trim(command)))
        method == IF args0 = <<>> THEN <<>> ELSE toUpperCase(Head(args0))
        args == IF args0 = <<>> THEN <<>> ELSE Tail(args0)
        implemented == method \in SaslMechanisms
    IN  IF MustStartTls(s)
        THEN callback(send(s, 538, <<"Error: Must issue a STARTTLS command first">>))
        ELSE IF s.session.user # None
        THEN callback(send(s, 503, <<"Error: No identity changes permitted">>))
        ELSE IF (\A i \in 1..Len(s.server.options.authMethods) :
                    s.server.options.authMethods[i] # method)
                \/ ~implemented
        THEN callback(send(s, 504, <<"Error: Unrecognized authentication type">>))
        ELSE SASL_PLAIN(s, args)

\* Number(parsed.args.SIZE) > size, for a SIZE parameter that is a decimal numeral.
NumberOf(v) ==
    CASE v = <<"9">> -> 9
      [] v = <<"5">> -> 5
      [] OTHER -> 0

\* this._server.onMailFrom(parsed, this.session, function ...): the collaborator has
\* the address and calls back later; nothing else happens until then.
\* A faulty variant: the parser's continuation is called as the collaborator is.
callOnMailFrom_Resuming(s, parsed) == callback([s EXCEPT !.pending.onMailFrom = parsed])

callOnMailFrom(s, parsed) == [s EXCEPT !.pending.onMailFrom = parsed]

handler_MAIL(s, command) ==
    LET parsed == _parseAddressCommand(<<"mail", " ", "from">>, command)
        args == IF parsed = None THEN None ELSE parsed[1].args
        hasSize == args # None /\ <<"SIZE">> \in DOMAIN args[1]
    IN  IF parsed = None
        THEN callback(send(s, 501, <<"Error: Bad sender address syntax">>))
        ELSE IF s.session.envelope.mailFrom # None
        THEN callback(send(s, 503, <<"Error: nested MAIL command">>))
        ELSE IF s.server.options.size # 0 /\ hasSize
                /\ NumberOf(args[1][<<"SIZE">>]) > s.server.options.size
        THEN callback(send(s, 552,
                 <<"Error: message exceeds fixed maximum message size <size>">>))
        ELSE callOnMailFrom(s, parsed)

\* The callback of this._server.onMailFrom.
onMailFromCb(s, err) ==
    LET parsed == s.pending.onMailFrom
        s1 == [s EXCEPT !.pending.onMailFrom = None]
    IN  IF err # None
        THEN callback(send(s1, IF err[1].responseCode # 0 THEN err[1].responseCode ELSE 550,
                           <<err[1].message>>))
        ELSE callback(send([s1 EXCEPT !.session.envelope.mailFrom = parsed],
                           250, <<"Accepted">>))

\* A faulty variant: RCPT is taken without a sender.
RcptNeedsMail_Never(s) == FALSE

\* "if (!this.session.envelope.mailFrom)"
RcptNeedsMail(s) == s.session.envelope.mailFrom = None

handler_RCPT(s, command) ==
    LET parsed == _parseAddressCommand(<<"rcpt", " ", "to">>, command)
    IN  IF parsed = None \/ parsed[1].address = <<>>
        THEN callback(send(s, 501, <<"Error: Bad recipient address syntax">>))
        ELSE IF RcptNeedsMail(s)
        THEN callback(send(s, 503, <<"Error: need MAIL command">>))
        ELSE [s EXCEPT !.pending.onRcptTo = parsed]

\* A faulty variant: the addresses are compared as they are.
SameAddress_Exact(a, b) == a = b

\* "rcptTo[i].address.toLowerCase() === parsed.address.toLowerCase()"
SameAddress(a, b) == toLowerCase(a) = toLowerCase(b)

\* "check if the address is already used, if so then overwrite", else push: the new
\* rcptTo list.
RcptToWith(rcptTo, parsed) ==
    LET hits == {i \in 1..Len(rcptTo) : SameAddress(rcptTo[i].address, parsed.address)}
    IN  IF hits # {}
        THEN LET first == CHOOSE i \in hits : \A j \in hits : i <= j
             IN  [rcptTo EXCEPT ![first] = parsed]
        ELSE Append(rcptTo, parsed)

\* The callback of this._server.onRcptTo.
onRcptToCb(s, err) ==
    LET parsed == s.pending.onRcptTo
        s1 == [s EXCEPT !.pending.onRcptTo = None]
    IN  IF err # None
        THEN callback(send(s1, IF err[1].responseCode # 0 THEN err[1].responseCode ELSE 550,
                           <<err[1].message>>))
        ELSE callback(send([s1 EXCEPT !.session.envelope.rcptTo = RcptToWith(@, parsed[1])],
                           250, <<"Accepted">>))

(***************************************************************************)
(* handler_DATA, its close function and the callback of onData.            *)
(***************************************************************************)
\* SMTPStream.prototype.startDataMode: the parser is in data mode from the next byte
\* on, and a fresh readable stream is returned.  The parser counts dataBytes against
\* the size it is given; sizeExceeded records that the count passed it.
startDataMode(s) ==
    [s EXCEPT !.parser.dataMode = TRUE,
              !.parser.ended = FALSE,
              !.dataStream = [readable |-> TRUE, onEnd |-> None, sizeExceeded |-> FALSE],
              !.conn._dataStream = "stream"]

\* SMTPStream.prototype.continue: back to command mode, the parser reads on.
parserContinue(s) ==
    [s EXCEPT !.parser.dataMode = FALSE, !.parser.ended = FALSE]

\* "if (!this.session.envelope.rcptTo.length)"
DataNeedsRcpt(s) == s.session.envelope.rcptTo = <<>>

handler_DATA(s, command) ==
    IF DataNeedsRcpt(s)
    THEN callback(send(s, 503, <<"Error: need RCPT command">>))
    ELSE LET s1 == startDataMode(s)
             s2 == [s1 EXCEPT !.pending.onData = TRUE,
                              !.dataCmd = [active |-> TRUE, cb |-> FALSE, ended |-> FALSE,
                                           closes |-> 0, before |-> s.conn._transactionCounter,
                                           user |-> s.session.user]]
         IN  callback(send(s2, 354, <<"End data with <CR><LF>.<CR><LF>">>))

\* The function close of handler_DATA.  this._dataStream is null once _onClose has
\* run during the command: removeAllListeners is then read from null.
handler_DATA_close(s, err) ==
    IF s.conn._dataStream # "stream" THEN throwTypeError(s)
    ELSE LET s1 == [s EXCEPT !.dataStream.onEnd = None]
             s2 == IF err # None
                   THEN send(s1, IF err[1].responseCode # 0 THEN err[1].responseCode ELSE 554,
                             <<err[1].message>>)
                   ELSE send(s1, 250, <<"OK: message queued">>)
             s3 == [s2 EXCEPT !.conn._transactionCounter = @ + 1,
                              !.conn._unrecognizedCommands = 0,
                              !.dataCmd.closes = @ + 1,
                              !.dataCmd.active = FALSE]
             s4 == _startSession(s3)
         IN  IF ~s4.conn._parser THEN throwTypeError(s4) ELSE parserContinue(s4)

\* A faulty variant: the callback of onData never waits for 'end'.
StreamNotEnded_Never(s) == FALSE

\* "if (this._dataStream.readable)": the stream has not emitted 'end' yet.
StreamNotEnded(s) == s.dataStream.readable

\* The callback given to this._server.onData.
onDataCb(s, err) ==
    LET s1 == [s EXCEPT !.pending.onData = FALSE, !.dataCmd.cb = TRUE]
    IN  IF s1.conn._dataStream # "stream" THEN throwTypeError(s1)
        ELSE IF StreamNotEnded(s1)
        THEN [s1 EXCEPT !.dataStream.onEnd = Some(err)]
        ELSE handler_DATA_close(s1, err)

\* The data stream emits 'end': it is no longer readable, and a listener that
\* onDataCb left runs close.
onDataStreamEnd(s) ==
    LET s1 == [s EXCEPT !.dataStream.readable = FALSE, !.dataCmd.ended = TRUE]
    IN  IF s1.dataStream.onEnd # None
        THEN handler_DATA_close(s1, s1.dataStream.onEnd[1])
        ELSE s1

(***************************************************************************)
(* The dummy handlers of the old sendmail commands.                        *)
(***************************************************************************)
handler_WIZ(s, command) ==
    LET args == Tail(splitWhitespace(trim(command)))
        password == IF args = <<>> THEN <<>> ELSE Head(args)
    IN  IF password = <<>>
        THEN callback(send(s, 500, <<"You are no wizard!">>))
        ELSE callback(send([s EXCEPT !.session.isWizard = TRUE],
                           200, <<"Please pass, oh mighty wizard">>))

handler_SHELL(s, command) ==
    IF ~s.session.isWizard
    THEN callback(send(s, 500, <<"Mere mortals musn't mutter that mantra">>))
    ELSE callback(send(s, 500,
             <<"Error: Invoking shell is not allowed. This incident will be reported.">>))

handler_KILL(s, command) == callback(send(s, 500, <<"Can't kill Mom">>))

(***************************************************************************)
(* The socket's events.                                                    *)
(***************************************************************************)
_onClose(s) ==
    LET s1 == IF s.conn._parser
              THEN [s EXCEPT !.parser.closed = TRUE, !.parser.piped = "none",
                             !.conn._parser = FALSE]
              ELSE s
        s2 == IF s1.conn._dataStream = "stream"
              THEN [s1 EXCEPT !.conn._dataStream = "null"]
              ELSE s1
        s3 == [s2 EXCEPT !.server.connections = FALSE]
    IN  IF s3.conn._closed THEN s3
        ELSE [s3 EXCEPT !.conn._closed = TRUE, !.conn._closing = FALSE]

_onError(s, code) == IF code = "ECONNRESET" THEN close(s) ELSE s

_onTimeout(s) == close(send(s, 451, <<"Timeout - closing connection">>))

\* SMTPConnection.prototype.init; overLimit is
\* "maxClients && connections.size > maxClients".
init(s, overLimit) ==
    IF overLimit
    THEN close(send(s, 421, <<"<name> Too many connected clients, try again in a moment">>))
    ELSE IF ~s.server.options.useProxy
    THEN [s EXCEPT !.pending.timer = TRUE]
    ELSE s

(***************************************************************************)
(* _onCommand: the dispatcher.                                             *)
(***************************************************************************)
\* /^(OPTIONS|GET|HEAD|POST|PUT|DELETE|TRACE|CONNECT) \/.* HTTP\/\d\.\d$/i
IsHttpRequest(command) ==
    /\ Len(command) >= 5
    /\ UpperLexeme(command[1])
          \in {"OPTIONS", "GET", "HEAD", "POST", "PUT", "DELETE", "TRACE", "CONNECT"}
    /\ command[2] = " "
    /\ command[3] \in {"/", "/index.html"}
    /\ command[Len(command) - 1] = " "
    /\ UpperLexeme(command[Len(command)]) \in {"HTTP/1.0", "HTTP/1.1"}

\* handler.call(this, command, callback), by the name of the handler.
CallHandler(s, handler, command) ==
    LET s1 == [s EXCEPT !.step.handler = handler]
    IN  CASE handler = "handler_EHLO" -> handler_EHLO(s1, command)
          [] handler = "handler_HELO" -> handler_HELO(s1, command)
          [] handler = "handler_QUIT" -> handler_QUIT(s1, command)
          [] handler = "handler_NOOP" -> handler_NOOP(s1, command)
          [] handler = "handler_RSET" -> handler_RSET(s1, command)
          [] handler = "handler_HELP" -> handler_HELP(s1, command)
          [] handler = "handler_VRFY" -> handler_VRFY(s1, command)
          [] handler = "handler_XCLIENT" -> handler_XCLIENT(s1, command)
          [] handler = "handler_STARTTLS" -> handler_STARTTLS(s1, command)
          [] handler = "handler_AUTH" -> handler_AUTH(s1, command)
          [] handler = "handler_MAIL" -> handler_MAIL(s1, command)
          [] handler = "handler_RCPT" -> handler_RCPT(s1, command)
          [] handler = "handler_DATA" -> handler_DATA(s1, command)
          [] handler = "handler_WIZ" -> handler_WIZ(s1, command)
          [] handler = "handler_SHELL" -> handler_SHELL(s1, command)
          [] handler = "handler_KILL" -> handler_KILL(s1, command)
          [] handler = "PLAIN_token" -> PLAIN_token(s1, command)

\* this['handler_' + commandName]
HandlerOf(commandName) ==
    CASE commandName = <<"EHLO">> -> "handler_EHLO"
      [] commandName = <<"HELO">> -> "handler_HELO"
      [] commandName = <<"QUIT">> -> "handler_QUIT"
      [] commandName = <<"NOOP">> -> "handler_NOOP"
      [] commandName = <<"RSET">> -> "handler_RSET"
      [] commandName = <<"HELP">> -> "handler_HELP"
      [] commandName = <<"VRFY">> -> "handler_VRFY"
      [] commandName = <<"XCLIENT">> -> "handler_XCLIENT"
      [] commandName = <<"STARTTLS">> -> "handler_STARTTLS"
      [] commandName = <<"AUTH">> -> "handler_AUTH"
      [] commandName = <<"MAIL">> -> "handler_MAIL"
      [] commandName = <<"RCPT">> -> "handler_RCPT"
      [] commandName = <<"DATA">> -> "handler_DATA"
      [] commandName = <<"WIZ">> -> "handler_WIZ"
      [] commandName = <<"SHELL">> -> "handler_SHELL"
      [] commandName = <<"KILL">> -> "handler_KILL"

\* A faulty variant: the early talker is answered and the parser reads on.
EarlyTalker_Resuming(s) == callback(send(s, 421, <<"<name> You talk too soon">>))

\* "block spammers that send payloads before server greeting"
EarlyTalker(s) == close(send(s, 421, <<"<name> You talk too soon">>))

\* The part of _onCommand for a connection that is not ready.
NotReady(s, command, sync) ==
    IF s.server.options.useProxy
    THEN LET params == split(command, " ")
             commandName == toUpperCase(Head(params))
             rest == Tail(params)
         IN  IF commandName # <<"PROXY">>
             THEN close(send(s, 500, <<"Invalid PROXY header">>))
             ELSE LET s1 == IF Len(rest) >= 2 /\ rest[2] # <<>>
                            THEN [s EXCEPT !.conn.remoteAddress = toLowerCase(trim(rest[2]))]
                            ELSE s
                  IN  connectionReady(s1, TRUE, sync)
    ELSE EarlyTalker(s)

\* A faulty variant: the comparison is strict.
TooManyUnrecognized_Late(s) == s.conn._unrecognizedCommands > MaxUnrecognized

\* "if (this._unrecognizedCommands >= 10)"
TooManyUnrecognized(s) == s.conn._unrecognizedCommands >= MaxUnrecognized

\* "if (!this.session.user && this._isSupported('AUTH') && commandName !== 'AUTH')"
CountsAsUnauthenticated(s, commandName) ==
    s.session.user = None /\ _isSupported(s, <<"AUTH">>) /\ commandName # <<"AUTH">>

\* A faulty variant: the comparison is strict.
TooManyUnauthenticated_Late(s) == s.conn._unauthenticatedCommands > MaxUnauthenticated

\* "if (this._unauthenticatedCommands >= 10)"
TooManyUnauthenticated(s) == s.conn._unauthenticatedCommands >= MaxUnauthenticated

\* A faulty variant: MAIL is not in the list.
NeedsHelo_NotMail(s, commandName) ==
    /\ s.conn.hostNameAppearsAs = <<>>
    /\ commandName # <<>>
    /\ commandName \in {<<"RCPT">>, <<"DATA">>, <<"AUTH">>}

\* "if (!this.hostNameAppearsAs && commandName &&
\*      ['MAIL', 'RCPT', 'DATA', 'AUTH'].indexOf(commandName) >= 0)"
NeedsHelo(s, commandName) ==
    /\ s.conn.hostNameAppearsAs = <<>>
    /\ commandName # <<>>
    /\ commandName \in {<<"MAIL">>, <<"RCPT">>, <<"DATA">>, <<"AUTH">>}

\* A faulty variant: MAIL is not in the list.
NeedsAuth_NotMail(s, commandName) ==
    /\ s.session.user = None
    /\ _isSupported(s, <<"AUTH">>)
    /\ commandName \in {<<"RCPT">>, <<"DATA">>}

\* "if (!this.session.user && this._isSupported('AUTH') &&
\*      ['MAIL', 'RCPT', 'DATA'].indexOf(commandName) >= 0)"
NeedsAuth(s, commandName) ==
    /\ s.session.user = None
    /\ _isSupported(s, <<"AUTH">>)
    /\ commandName \in {<<"MAIL">>, <<"RCPT">>, <<"DATA">>}

\* The part of _onCommand from "if (this._nextHandler)" on.  commandName is <<>>
\* (undefined) when a queued handler takes the line.
Dispatch(s, command) ==
    LET queued == s.conn._nextHandler # None
        commandName == IF queued THEN <<>> ELSE toUpperCase(Head(split(command, " ")))
        handler == IF queued THEN s.conn._nextHandler[1]
                   ELSE IF _isSupported(s, commandName) THEN HandlerOf(commandName)
                   ELSE ""
        s1 == IF queued THEN [s EXCEPT !.conn._nextHandler = None] ELSE s
        counted == CountsAsUnauthenticated(s1, commandName)
        s2 == IF counted THEN [s1 EXCEPT !.conn._unauthenticatedCommands = @ + 1] ELSE s1
    IN  IF handler = ""
        THEN LET u == [s1 EXCEPT !.conn._unrecognizedCommands = @ + 1]
             IN  IF TooManyUnrecognized(u)
                 THEN close(send(u, 554, <<"Error: too many unrecognized commands">>))
                 ELSE setImmediate(send(u, 500, <<"Error: command not recognized">>))
        ELSE IF counted /\ TooManyUnauthenticated(s2)
        THEN close(send(s2, 554, <<"Error: too many unauthenticated commands">>))
        ELSE IF NeedsHelo(s2, commandName)
        THEN setImmediate(send(s2, 503, <<"Error: send HELO/EHLO first">>))
        ELSE IF NeedsAuth(s2, commandName)
        THEN setImmediate(send(s2, 530, <<"Error: authentication Required">>))
        ELSE CallHandler(s2, handler, command)

\* A faulty variant: lines are dispatched during the upgrade.
Upgrading_Never(s) == FALSE

\* "if (this._upgrading)": "ignore any commands before TLS upgrade is finished"
Upgrading(s) == s.conn._upgrading

_onCommand(s, command, sync) ==
    IF ~s.conn._ready THEN NotReady(s, command, sync)
    ELSE IF IsHttpRequest(command)
    THEN close(send(s, 554, <<"HTTP requests not allowed">>))
    ELSE IF Upgrading(s) THEN callback(s)
    ELSE Dispatch(s, command)

(***************************************************************************)
(* Server configurations and clients.                                      *)
(***************************************************************************)
DefaultOptions ==
    [useProxy |-> FALSE, useXClient |-> FALSE, hideSTARTTLS |-> FALSE,
     disabledCommands |-> {}, authMethods |-> << <<"PLAIN">> >>, size |-> 0,
     secure |-> FALSE]

\* An open relay: no AUTH, no STARTTLS, a size limit.
RelayOptions ==
    [DefaultOptions EXCEPT !.disabledCommands = {<<"AUTH">>, <<"STARTTLS">>},
                           !.size = 5]
RelayLines ==
    {L_EHLO, L_HELO, L_EHLO_noarg, L_HELO_extra, L_MAIL, L_MAIL_nobrackets, L_MAIL_big, L_RCPT_A,
     L_RCPT_a, L_RCPT_b, L_RCPT_empty, L_DATA, L_RSET, L_NOOP, L_QUIT, L_FOO, L_HTTP,
     L_AUTH_PLAIN}

\* A submission server: AUTH is required, STARTTLS is not offered.
AuthOptions == [DefaultOptions EXCEPT !.hideSTARTTLS = TRUE]
AuthLines ==
    {L_EHLO, L_AUTH_PLAIN, L_AUTH_PLAIN_token, L_AUTH_FOO, L_token, L_MAIL, L_RCPT_A,
     L_DATA, L_RSET, L_FOO}

\* A server that offers STARTTLS and requires it before AUTH.
TlsOptions == DefaultOptions
TlsLines == {L_EHLO, L_STARTTLS, L_AUTH_PLAIN_token, L_MAIL, L_NOOP, L_HTTP}

\* A server behind a proxy that sends a PROXY header and XCLIENT; STARTTLS is offered
\* and never used.
ProxyOptions ==
    [DefaultOptions EXCEPT !.useProxy = TRUE, !.useXClient = TRUE]
ProxyLines ==
    {L_PROXY, L_EHLO, L_XCLIENT_ADDR, L_XCLIENT_LOGIN, L_XCLIENT_LOGIN_none, L_XCLIENT_mixed,
     L_MAIL, L_RCPT_A, L_AUTH_FOO}

Scenarios ==
    {[options |-> RelayOptions, lines |-> RelayLines],
     [options |-> AuthOptions, lines |-> AuthLines],
     [options |-> TlsOptions, lines |-> TlsLines],
     [options |-> ProxyOptions, lines |-> ProxyLines]}

\* The same servers with clients that send fewer kinds of lines: one line for each
\* way a command is suspended and resumed.
LiveScenarios ==
    {[options |-> RelayOptions,
      lines |-> {L_HELO, L_MAIL, L_RCPT_A, L_DATA, L_NOOP, L_QUIT, L_FOO, L_HTTP}],
     [options |-> AuthOptions, lines |-> {L_EHLO, L_AUTH_PLAIN, L_token, L_MAIL}],
     [options |-> TlsOptions, lines |-> {L_EHLO, L_STARTTLS, L_NOOP}],
     [options |-> ProxyOptions, lines |-> {L_PROXY, L_EHLO, L_XCLIENT_ADDR}]}

\* What a collaborator reports: no error, an error, an error with a responseCode.
Errors ==
    {None,
     Some([responseCode |-> 0, message |-> "rejected"]),
     Some([responseCode |-> 451, message |-> "try again later"])}

(***************************************************************************)
(* The initial state: the connection as its constructor leaves it.         *)
(***************************************************************************)
InitWith(scenarios) ==
    \E sc \in scenarios :
        /\ conn = [_ready |-> FALSE, _upgrading |-> FALSE, _nextHandler |-> None,
                   secure |-> sc.options.secure, remoteAddress |-> <<"192.0.2.1">>,
                   clientHostname |-> <<>>, hostNameAppearsAs |-> <<>>,
                   _unauthenticatedCommands |-> 0, _unrecognizedCommands |-> 0,
                   _xclient |-> <<>>, _closing |-> FALSE, _closed |-> FALSE,
                   _transactionCounter |-> 0, _dataStream |-> "false", _parser |-> TRUE]
        /\ session = NoSession
        /\ socket = [current |-> "raw", writable |-> TRUE, destroyed |-> FALSE,
                     handshake |-> FALSE]
        /\ parser = [waiting |-> FALSE, dataMode |-> FALSE, ended |-> FALSE,
                     closed |-> FALSE, piped |-> "none"]
        /\ dataStream = [readable |-> FALSE, onEnd |-> None, sizeExceeded |-> FALSE]
        /\ server = [options |-> sc.options, connections |-> TRUE]
        /\ pending = [init |-> TRUE, timer |-> FALSE, reverse |-> None, onConnect |-> None,
                      onMailFrom |-> None, onRcptTo |-> None, onData |-> FALSE,
                      onAuth |-> FALSE, immediate |-> FALSE, crashed |-> FALSE]
        /\ client = sc.lines
        /\ dataCmd = [active |-> FALSE, cb |-> FALSE, ended |-> FALSE, closes |-> 0,
                      before |-> 0, user |-> None]
        /\ step = [op |-> "new", line |-> <<>>, handler |-> "", sent |-> <<>>,
                   before |-> [envelope |-> NoSession.envelope, unrecognized |-> 0]]

Init == InitWith(Scenarios)

(***************************************************************************)
(* The steps.                                                              *)
(***************************************************************************)
Running == ~pending.crashed

\* The server calls init(): the listeners are set and the socket is piped to the parser.
InitConnection ==
    /\ Running /\ pending.init
    /\ \E overLimit \in BOOLEAN :
          Commit(init([Begin(Cur, "init", <<>>) EXCEPT !.pending.init = FALSE,
                                                      !.parser.piped = "raw"],
                      overLimit))

\* The 100 ms timer of init fires.
GraceTimer ==
    /\ Running /\ pending.timer
    /\ \E sync \in BOOLEAN :
          Commit(connectionReady([Begin(Cur, "timer", <<>>) EXCEPT !.pending.timer = FALSE],
                                 FALSE, sync))

\* dns.reverse reports.
ReverseReply ==
    /\ Running /\ pending.reverse # None
    /\ Commit(reverseCb([Begin(Cur, "reverse", <<>>) EXCEPT !.pending.reverse = None],
                        pending.reverse[1].next))

\* onConnect calls back.
OnConnectDone ==
    /\ Running /\ pending.onConnect # None
    /\ \E err \in Errors :
          Commit(onConnectCb([Begin(Cur, "onConnect", <<>>) EXCEPT !.pending.onConnect = None],
                             err, pending.onConnect[1].next))

\* The parser has a complete command line and no command in progress: it calls
\* oncommand and waits for the continuation.
Command ==
    /\ Running /\ ~pending.init
    /\ ~parser.waiting /\ ~parser.dataMode /\ ~parser.closed
    /\ \E line \in client,
          sync \in IF ~conn._ready /\ server.options.useProxy THEN BOOLEAN ELSE {TRUE} :
          /\ line = L_DATA => conn._transactionCounter < MaxTransactions
          /\ Commit(_onCommand([Begin(Cur, "command", line) EXCEPT !.parser.waiting = TRUE],
                               line, sync))

\* A callback given to setImmediate runs.
Immediate ==
    /\ Running /\ pending.immediate
    /\ Commit(callback([Begin(Cur, "immediate", <<>>) EXCEPT !.pending.immediate = FALSE]))

OnMailFromDone ==
    /\ Running /\ pending.onMailFrom # None
    /\ \E err \in Errors : Commit(onMailFromCb(Begin(Cur, "onMailFrom", <<>>), err))

OnRcptToDone ==
    /\ Running /\ pending.onRcptTo # None
    /\ \E err \in Errors : Commit(onRcptToCb(Begin(Cur, "onRcptTo", <<>>), err))

OnAuthDone ==
    /\ Running /\ pending.onAuth
    /\ \E ok \in BOOLEAN :
          Commit(onAuthCb([Begin(Cur, "onAuth", <<>>) EXCEPT !.pending.onAuth = FALSE], ok))

\* In data mode the parser reads the line "." that ends the message: it ends the data
\* stream and waits for continue().  The body was within the size given to
\* startDataMode (up to exactly size bytes) or beyond it; without a size nothing is.
DataTerminator ==
    /\ Running
    /\ parser.dataMode /\ ~parser.waiting /\ ~parser.ended /\ ~parser.closed
    /\ \E over \in IF server.options.size # 0 THEN BOOLEAN ELSE {FALSE} :
          Commit([Begin(Cur, "terminator", <<>>) EXCEPT !.parser.ended = TRUE,
                                                       !.dataStream.sizeExceeded = over])

\* The application has read the data stream to its end: 'end' is emitted.
DataStreamEnd ==
    /\ Running /\ parser.ended /\ dataStream.readable
    /\ Commit(onDataStreamEnd(Begin(Cur, "end", <<>>)))

OnDataDone ==
    /\ Running /\ pending.onData
    /\ \E err \in Errors : Commit(onDataCb(Begin(Cur, "onData", <<>>), err))

\* The TLS handshake completes.  The handshake is carried by the raw socket: it cannot
\* complete once that socket has been ended.
TlsSecure ==
    /\ Running /\ socket.handshake /\ ~socket.destroyed /\ socket.writable
    /\ Commit(onSecure(Begin(Cur, "secure", <<>>)))

SocketTimeout ==
    /\ Running /\ ~pending.init /\ ~socket.destroyed
    /\ Commit(_onTimeout(Begin(Cur, "timeout", <<>>)))

SocketError ==
    /\ Running /\ ~pending.init /\ ~socket.destroyed
    /\ \E code \in {"ECONNRESET", "EPIPE"} :
          Commit(_onError(Begin(Cur, "error", <<>>), code))

\* The socket is closed, by the peer or after end(): 'close' is emitted.
SocketClose ==
    /\ Running /\ ~pending.init /\ ~socket.destroyed
    /\ Commit(_onClose([Begin(Cur, "close", <<>>) EXCEPT !.socket.destroyed = TRUE,
                                                         !.socket.writable = FALSE,
                                                         !.socket.handshake = FALSE]))

Next ==
    \/ InitConnection
    \/ GraceTimer
    \/ ReverseReply
    \/ OnConnectDone
    \/ Command
    \/ Immediate
    \/ OnMailFromDone
    \/ OnRcptToDone
    \/ OnAuthDone
    \/ DataTerminator
    \/ DataStreamEnd
    \/ OnDataDone
    \/ TlsSecure
    \/ SocketTimeout
    \/ SocketError
    \/ SocketClose

Spec == Init /\ [][Next]_vars

\* The same steps, with what the runtime and the collaborators guarantee: a callback
\* given to setImmediate runs, dns.reverse reports, onConnect, onMailFrom, onRcptTo,
\* onAuth and onData call back, and a data stream whose last line was read is
\* consumed to its end.  Nothing is assumed about the client, the timers of the
\* socket or the TLS handshake.
FairSpec ==
    /\ InitWith(LiveScenarios)
    /\ [][Next]_vars
    /\ WF_vars(Immediate)
    /\ WF_vars(ReverseReply)
    /\ WF_vars(OnConnectDone)
    /\ WF_vars(OnMailFromDone)
    /\ WF_vars(OnRcptToDone)
    /\ WF_vars(OnAuthDone)
    /\ WF_vars(OnDataDone)
    /\ WF_vars(DataStreamEnd)

(***************************************************************************)
(* Properties.  A property of a step is written over the step's record:    *)
(* step' is the record of the step taken, the unprimed variables are the   *)
(* state the step starts from.                                             *)
(***************************************************************************)
\* The verb of a command line.
Verb(line) == toUpperCase(Head(split(line, " ")))

\* The step record st has exactly one reply, code and text.
Answered(st, code, text) ==
    Len(st.sent) = 1 /\ st.sent[1].code = code /\ st.sent[1].data = <<text>>

\* AUTH is a supported command.
AuthSupported == <<"AUTH">> \notin server.options.disabledCommands

\* The line of the step reaches the dispatch by verb: the connection is ready, the
\* line is no HTTP request, no TLS upgrade is under way and no handler is queued.
ByVerb ==
    /\ conn._ready
    /\ ~IsHttpRequest(step'.line)
    /\ ~conn._upgrading
    /\ conn._nextHandler = None

\* A command's continuation has not been called yet, or a DATA command is between
\* its 354 reply and the parser's continue().
Handling ==
    \/ pending.onMailFrom # None
    \/ pending.onRcptTo # None
    \/ pending.onAuth
    \/ pending.immediate
    \/ (pending.onConnect # None /\ pending.onConnect[1].next)
    \/ (pending.reverse # None /\ pending.reverse[1].next)
    \/ dataCmd.active

\* C1: no command line is dispatched by _onCommand while an earlier line's
\* continuation has not been called (a callout of onConnect, onMailFrom, onRcptTo or
\* of the authentication is pending, or a setImmediate(callback) has not run), nor
\* between the 354 reply to DATA and the continue() after the final DATA reply.
C1_OneCommandAtATime == [][step'.op = "command" => ~Handling]_vars

\* A callout of onMailFrom is pending, the transport is open and the client has more
\* lines to send: the parser waits.
C1_Witness ==
    /\ pending.onMailFrom # None
    /\ parser.waiting
    /\ ~parser.closed
    /\ socket.writable

\* The envelope, the user and the parser's mode are as before the step, and the step
\* ran none of the four handlers.
C2_Untouched ==
    /\ step'.handler \notin {"handler_MAIL", "handler_RCPT", "handler_DATA", "handler_AUTH"}
    /\ session'.envelope = session.envelope
    /\ session'.user = session.user
    /\ parser'.dataMode = parser.dataMode

\* A MAIL, RCPT, DATA or AUTH line is dispatched while hostNameAppearsAs is unset.
C2_Case ==
    /\ step'.op = "command"
    /\ conn.hostNameAppearsAs = <<>>
    /\ Verb(step'.line) \in {<<"MAIL">>, <<"RCPT">>, <<"DATA">>, <<"AUTH">>}

\* The step's line is the tenth unauthenticated command: AUTH is supported, no user is
\* authenticated, the verb is not AUTH and nine such commands were counted.
TenthUnauthenticated ==
    /\ AuthSupported
    /\ session.user = None
    /\ Verb(step'.line) # <<"AUTH">>
    /\ conn._unauthenticatedCommands = 9

\* C2 (as amended): while hostNameAppearsAs is unset, a MAIL, RCPT, DATA or AUTH line
\* never reaches its handler and leaves the envelope, session.user and the parser's
\* mode unchanged; when the line is dispatched by its verb and the verb is enabled, it
\* is answered 503 'Error: send HELO/EHLO first' and the parser is resumed, unless it
\* is the tenth unauthenticated command, which is answered 554 'Error: too many
\* unauthenticated commands' and closes the connection.
C2_HeloGate ==
    [][C2_Case =>
          /\ C2_Untouched
          /\ (ByVerb /\ Verb(step'.line) \notin server.options.disabledCommands) =>
                IF TenthUnauthenticated
                THEN /\ Answered(step', 554, "Error: too many unauthenticated commands")
                     /\ conn'._closing
                     /\ ~pending'.immediate
                ELSE /\ Answered(step', 503, "Error: send HELO/EHLO first")
                     /\ pending'.immediate]_vars

\* MAIL was refused with 503 after an XCLIENT that changed ADDR had unset
\* hostNameAppearsAs.
C2_Witness ==
    /\ step.op = "command"
    /\ Verb(step.line) = <<"MAIL">>
    /\ conn.hostNameAppearsAs = <<>>
    /\ <<"ADDR">> \in DOMAIN conn._xclient
    /\ Answered(step, 503, "Error: send HELO/EHLO first")

\* C2 as stated: every such line, dispatched by its verb with the verb enabled, is
\* answered 503 'Error: send HELO/EHLO first'.
C2_Original ==
    [][(C2_Case /\ ByVerb /\ Verb(step'.line) \notin server.options.disabledCommands) =>
          /\ C2_Untouched
          /\ Answered(step', 503, "Error: send HELO/EHLO first")]_vars

\* A MAIL, RCPT or DATA line is dispatched while AUTH is supported and no user is
\* authenticated.
C3_Case ==
    /\ step'.op = "command"
    /\ AuthSupported
    /\ session.user = None
    /\ Verb(step'.line) \in {<<"MAIL">>, <<"RCPT">>, <<"DATA">>}

\* The step invokes one of the collaborators onMailFrom, onRcptTo, onData.
InvokesCollaborator ==
    \/ pending.onMailFrom = None /\ pending'.onMailFrom # None
    \/ pending.onRcptTo = None /\ pending'.onRcptTo # None
    \/ ~pending.onData /\ pending'.onData

\* No collaborator is invoked while AUTH is supported and no user is authenticated.
C3_NoCallout == InvokesCollaborator => ~(AuthSupported /\ session.user = None)

\* C3 (as amended): when AUTH is supported, onMailFrom, onRcptTo and onData are never
\* invoked while session.user is absent; a MAIL, RCPT or DATA line received without an
\* authenticated user leaves the envelope unchanged, and dispatched by its verb it is
\* refused with 530 'Error: authentication Required', or with 503 when HELO/EHLO is
\* missing, or, as the tenth unauthenticated command, with 554 and the connection
\* is closed.
C3_AuthGate ==
    [][/\ C3_NoCallout
       /\ C3_Case =>
             /\ session'.envelope = session.envelope
             /\ step'.handler \notin {"handler_MAIL", "handler_RCPT", "handler_DATA"}
             /\ ByVerb =>
                  IF TenthUnauthenticated
                  THEN /\ Answered(step', 554, "Error: too many unauthenticated commands")
                       /\ conn'._closing
                  ELSE IF conn.hostNameAppearsAs = <<>>
                  THEN Answered(step', 503, "Error: send HELO/EHLO first")
                  ELSE Answered(step', 530, "Error: authentication Required")]_vars

\* MAIL after EHLO was refused with 530, no user being authenticated.
C3_Witness ==
    /\ step.op = "command"
    /\ Verb(step.line) = <<"MAIL">>
    /\ AuthSupported
    /\ session.user = None
    /\ conn.hostNameAppearsAs # <<>>
    /\ Answered(step, 530, "Error: authentication Required")

\* C3 as stated: every such line is refused with 530 or, HELO/EHLO missing, with 503.
C3_Original ==
    [][/\ C3_NoCallout
       /\ (C3_Case /\ ByVerb) =>
             /\ session'.envelope = session.envelope
             /\ \/ Answered(step', 530, "Error: authentication Required")
                \/ Answered(step', 503, "Error: send HELO/EHLO first")]_vars

C5_ReadyGate ==
    [][/\ step'.handler # "" => conn._ready
       /\ (~server.options.useProxy /\ conn'._ready) =>
             /\ ~pending'.init /\ ~pending'.timer
             /\ pending'.reverse = None /\ pending'.onConnect = None
             /\ session'.exists
       /\ (step'.op = "command" /\ ~conn._ready /\ ~server.options.useProxy) =>
             /\ Answered(step', 421, "<name> You talk too soon")
             /\ conn'._closing
             /\ ~socket'.writable
             /\ step'.handler = ""
             /\ parser'.waiting
             /\ ~pending'.immediate
             /\ session' = session]_vars

\* A line arrived before the greeting and was answered 421; the parser waits.
C5_Witness ==
    /\ step.op = "command"
    /\ ~conn._ready
    /\ Answered(step, 421, "<name> You talk too soon")
    /\ conn._closing
    /\ parser.waiting

\* The step runs the function close of handler_DATA: the DATA command completes.
DataCompletes == dataCmd'.closes > dataCmd.closes

\* C6: for a DATA command, in both orders of the callback of onData and the 'end' of
\* the data stream, the final reply is sent, _transactionCounter incremented and the
\* parser resumed only when both have happened, in the step of the later one, and
\* this happens once per DATA command (a DATA command whose transport closed before
\* the later event does not complete).
C6_DataCompletion ==
    /\ [](/\ dataCmd.closes <= 1
          /\ dataCmd.closes = 1 => dataCmd.cb /\ dataCmd.ended
          /\ (dataCmd.cb /\ dataCmd.ended /\ ~pending.crashed) => dataCmd.closes = 1
          /\ dataCmd.active =>
                /\ parser.dataMode
                /\ conn._transactionCounter = dataCmd.before)
    /\ [][/\ (\/ conn'._transactionCounter # conn._transactionCounter
              \/ parser.dataMode /\ ~parser'.dataMode
              \/ step'.op \in {"onData", "end"} /\ step'.sent # <<>>) =>
                /\ DataCompletes
                /\ dataCmd'.cb /\ dataCmd'.ended
          /\ DataCompletes =>
                /\ step'.op \in {"onData", "end"}
                /\ dataCmd.active /\ ~dataCmd'.active
                /\ Len(step'.sent) = 1
                /\ conn'._transactionCounter = conn._transactionCounter + 1
                /\ ~parser'.dataMode /\ ~parser'.waiting]_vars

\* The callback of onData came first: the DATA command completed at the 'end' of the
\* stream, with the final reply.
C6_Witness ==
    /\ dataCmd.closes = 1
    /\ step.op = "end"
    /\ Len(step.sent) = 1
    /\ step.sent[1].code = 250

\* C7: after a completed DATA, whether onData reported success or an error, the
\* envelope is empty, _transactionCounter is one more than before the DATA command,
\* session.transaction is _transactionCounter + 1, _unrecognizedCommands is 0 and
\* session.user is as before.
C7_AfterData ==
    [][DataCompletes =>
          /\ session'.envelope = [mailFrom |-> None, rcptTo |-> <<>>]
          /\ conn'._transactionCounter = dataCmd.before + 1
          /\ session'.transaction = conn'._transactionCounter + 1
          /\ conn'._unrecognizedCommands = 0
          /\ session'.user = dataCmd.user
          /\ session'.user = session.user]_vars

\* onData reported an error for the message of an authenticated user: the DATA
\* command has completed with the error's code.
C7_Witness ==
    /\ dataCmd.closes = 1
    /\ step.op \in {"onData", "end"}
    /\ Len(step.sent) = 1
    /\ step.sent[1].code = 451
    /\ session.user # None
    /\ step.before.envelope.rcptTo # <<>>
    /\ session.envelope.rcptTo = <<>>

\* No two entries of the list have addresses that are equal ignoring case.
NoDuplicates(rcptTo) ==
    \A i, j \in 1..Len(rcptTo) :
        i # j => toLowerCase(rcptTo[i].address) # toLowerCase(rcptTo[j].address)

\* The step is the acceptance of a RCPT command.
RcptAccepted == step'.op = "onRcptTo" /\ Answered(step', 250, "Accepted")

\* C8: session.envelope.rcptTo never holds two entries whose addresses are equal
\* ignoring case; an accepted RCPT whose address matches an entry ignoring case
\* replaces that entry at its index with the new record and leaves the length and
\* the other entries unchanged, otherwise it appends the record at the end; nothing
\* else changes the list but a reset to the empty list.
C8_RcptDedup ==
    /\ [](NoDuplicates(session.envelope.rcptTo))
    /\ [][LET old == session.envelope.rcptTo
              new == session'.envelope.rcptTo
          IN  /\ RcptAccepted =>
                   LET p == pending.onRcptTo[1]
                       same(i) == toLowerCase(old[i].address) = toLowerCase(p.address)
                   IN  IF \E i \in 1..Len(old) : same(i)
                       THEN /\ Len(new) = Len(old)
                            /\ \A i \in 1..Len(old) :
                                  new[i] = IF same(i) THEN p ELSE old[i]
                       ELSE new = Append(old, p)
              /\ new # old => RcptAccepted \/ new = <<>>]_vars

\* An accepted RCPT replaced the second of two entries by a record whose address
\* differs in case; the first entry is as it was.
C8_Witness ==
    /\ step.op = "onRcptTo"
    /\ Answered(step, 250, "Accepted")
    /\ Len(step.before.envelope.rcptTo) = 2
    /\ Len(session.envelope.rcptTo) = 2
    /\ session.envelope.rcptTo[1] = step.before.envelope.rcptTo[1]
    /\ session.envelope.rcptTo[2].address # step.before.envelope.rcptTo[2].address
    /\ session.envelope.rcptTo[2].args # step.before.envelope.rcptTo[2].args

\* Neither counter passes 10, each grows by one at most, and the command that brings
\* a counter to 10 is answered 554 and closes the connection.
C9_Threshold ==
    /\ conn'._unrecognizedCommands <= 10
    /\ conn'._unauthenticatedCommands <= 10
    /\ conn'._unrecognizedCommands <= conn._unrecognizedCommands + 1
    /\ conn'._unauthenticatedCommands <= conn._unauthenticatedCommands + 1
    /\ (\/ conn'._unrecognizedCommands = 10 /\ conn._unrecognizedCommands # 10
        \/ conn'._unauthenticatedCommands = 10 /\ conn._unauthenticatedCommands # 10) =>
          /\ step'.op = "command"
          /\ Len(step'.sent) = 1
          /\ step'.sent[1].code = 554
          /\ conn'._closing
          /\ ~socket'.writable
          /\ ~server'.connections

\* C9 (as amended): _unauthenticatedCommands never decreases; _unrecognizedCommands
\* never decreases except that the completion of a DATA command sets it to 0; each
\* grows by one at a time up to 10, and the command that brings either to 10 is
\* answered 554 and closes the connection within that command.
C9_Counters ==
    [][/\ C9_Threshold
       /\ conn'._unauthenticatedCommands >= conn._unauthenticatedCommands
       /\ \/ conn'._unrecognizedCommands >= conn._unrecognizedCommands
          \/ DataCompletes /\ conn'._unrecognizedCommands = 0]_vars

\* A DATA command has completed after unrecognized commands had been counted: the
\* count is 0 again.
C9_Witness ==
    /\ dataCmd.closes = 1
    /\ step.op \in {"onData", "end"}
    /\ step.before.unrecognized > 0
    /\ conn._unrecognizedCommands = 0

\* C9 as stated: neither counter ever decreases.
C9_Original ==
    [][/\ C9_Threshold
       /\ conn'._unauthenticatedCommands >= conn._unauthenticatedCommands
       /\ conn'._unrecognizedCommands >= conn._unrecognizedCommands]_vars

\* A line whose verb is unknown or disabled is dispatched by its verb.
C10_Case ==
    /\ step'.op = "command"
    /\ ByVerb
    /\ \/ Verb(step'.line) \in server.options.disabledCommands
       \/ Verb(step'.line) \notin HandlerVerbs

\* C10: a line whose verb is unknown or disabled counts as unrecognized; the first to
\* the ninth counted from _unrecognizedCommands = 0 are answered 500 'Error: command
\* not recognized', nothing is closed and the parser is resumed by the immediate that
\* follows; the tenth is answered 554, close() is called and the parser is not
\* resumed: no command line is dispatched after it.
C10_TenUnrecognized ==
    /\ [](conn._unrecognizedCommands = 10 =>
             /\ parser.waiting
             /\ ~pending.immediate
             /\ conn._closing \/ conn._closed)
    /\ [][/\ C10_Case =>
                /\ conn'._unrecognizedCommands = conn._unrecognizedCommands + 1
                /\ step'.handler = ""
                /\ IF conn._unrecognizedCommands < 9
                   THEN /\ Answered(step', 500, "Error: command not recognized")
                        /\ pending'.immediate
                        /\ conn'._closing = conn._closing
                        /\ socket' = socket
                        /\ server' = server
                   ELSE /\ Answered(step', 554, "Error: too many unrecognized commands")
                        /\ conn'._closing
                        /\ parser'.waiting
                        /\ ~pending'.immediate
          /\ step'.op = "immediate" => ~parser'.waiting
          /\ step'.op = "command" => conn._unrecognizedCommands < 10]_vars

\* The tenth unrecognized line was answered 554 and the connection is closing.
C10_Witness ==
    /\ step.op = "command"
    /\ conn._unrecognizedCommands = 10
    /\ Answered(step, 554, "Error: too many unrecognized commands")
    /\ conn._closing
    /\ parser.waiting

C12_Discarded ==
    /\ step'.sent = <<>>
    /\ step'.handler = ""
    /\ conn' = conn
    /\ session' = session
    /\ socket' = socket
    /\ server' = server
    /\ pending' = pending
    /\ dataStream' = dataStream
    /\ ~parser'.waiting

\* C12 (as amended): while _upgrading is true, a command line that is not an HTTP
\* request is silently discarded: no response, no handler, no counter, session or
\* connection field changes, and the continuation is called; a line that is an HTTP
\* request is answered 554 'HTTP requests not allowed' and the connection is closed,
\* the continuation not being called.
C12_UpgradeFreeze ==
    [][(conn._upgrading /\ step'.op = "command") =>
          IF IsHttpRequest(step'.line)
          THEN /\ Answered(step', 554, "HTTP requests not allowed")
               /\ conn'._closing
               /\ step'.handler = ""
               /\ parser'.waiting
          ELSE C12_Discarded]_vars

\* A NOOP arrived during the upgrade and was discarded: nothing was sent and the
\* parser reads on.
C12_Witness ==
    /\ conn._upgrading
    /\ step.op = "command"
    /\ step.line = L_NOOP
    /\ step.sent = <<>>
    /\ step.handler = ""
    /\ ~parser.waiting

\* C12 as stated: every line delivered while _upgrading is true is discarded.
C12_Original == [][(conn._upgrading /\ step'.op = "command") => C12_Discarded]_vars

\* The parameters of an XCLIENT line, as the handler reads them.
XclientData(line) == XclientParse(Tail(splitWhitespace(trim(line))), <<>>)

\* The line carries the key with a value that is available.
XclientCarries(line, key) ==
    \E i \in 1..Len(XclientData(line).data) :
        XclientData(line).data[i][1] = key /\ XclientData(line).data[i][2] # <<>>

\* The value the line gives to the key.
XclientValue(line, key) ==
    LET data == XclientData(line).data
    IN  data[CHOOSE i \in 1..Len(data) : data[i][1] = key][2]

\* The step is an XCLIENT command that was accepted.
XclientAccepted == step'.handler = "handler_XCLIENT" /\ Answered(step', 220, "<name> ESMTP")

\* An XCLIENT has recorded an available ADDR and no HELO/EHLO was accepted since.
AfterXclientAddr ==
    /\ <<"ADDR">> \in DOMAIN conn._xclient
    /\ conn._xclient[<<"ADDR">>] # <<>>
    /\ conn.hostNameAppearsAs = <<>>

\* An accepted XCLIENT with an available ADDR sets remoteAddress to the lower-cased
\* value and unsets hostNameAppearsAs, which only an accepted HELO/EHLO sets again.
C13_AddrEffect ==
    /\ (XclientAccepted /\ XclientCarries(step'.line, <<"ADDR">>)) =>
          /\ conn'.remoteAddress = toLowerCase(XclientValue(step'.line, <<"ADDR">>))
          /\ conn'.hostNameAppearsAs = <<>>
          /\ conn'._xclient[<<"ADDR">>] = XclientValue(step'.line, <<"ADDR">>)
    /\ (conn.hostNameAppearsAs = <<>> /\ conn'.hostNameAppearsAs # <<>>) =>
          /\ step'.handler \in {"handler_EHLO", "handler_HELO"}
          /\ step'.sent[1].code = 250

\* A MAIL, RCPT, DATA or AUTH line is dispatched by its verb after such an XCLIENT.
C13_Case ==
    /\ step'.op = "command"
    /\ AfterXclientAddr
    /\ Verb(step'.line) \in {<<"MAIL">>, <<"RCPT">>, <<"DATA">>, <<"AUTH">>}
    /\ ByVerb
    /\ Verb(step'.line) \notin server.options.disabledCommands

\* C13 (as amended): an accepted XCLIENT with an available ADDR makes remoteAddress
\* the lower-cased address and unsets hostNameAppearsAs; until the next accepted
\* HELO/EHLO every MAIL, RCPT, DATA or AUTH is answered 503 'Error: send HELO/EHLO
\* first', with or without an authenticated user, except the tenth unauthenticated
\* command, which is answered 554 and closes the connection.
C13_XclientAddr ==
    [][/\ C13_AddrEffect
       /\ C13_Case =>
             /\ C2_Untouched
             /\ IF TenthUnauthenticated
                THEN /\ Answered(step', 554, "Error: too many unauthenticated commands")
                     /\ conn'._closing
                ELSE Answered(step', 503, "Error: send HELO/EHLO first")]_vars

\* An authenticated client's MAIL was refused with 503 after XCLIENT had set a new
\* address.
C13_Witness ==
    /\ step.op = "command"
    /\ Verb(step.line) = <<"MAIL">>
    /\ session.user # None
    /\ AfterXclientAddr
    /\ conn.remoteAddress = <<"fe80::1">>
    /\ Answered(step, 503, "Error: send HELO/EHLO first")

\* C13 as stated: every such line is answered 503.
C13_Original ==
    [][/\ C13_AddrEffect
       /\ C13_Case =>
             /\ C2_Untouched
             /\ Answered(step', 503, "Error: send HELO/EHLO first")]_vars

\* C14: with a size cap configured, a DATA body whose byte count exceeds the cap is
\* drained to end-of-stream and the final response of that DATA command is an error
\* response, never 250; a body within the cap (exactly size bytes included) that the
\* application accepts is answered 250.
C14_SizeCap ==
    [][(DataCompletes /\ server.options.size # 0) =>
          /\ dataCmd'.ended
          /\ Len(step'.sent) = 1
          /\ IF dataStream.sizeExceeded \/ dataStream'.sizeExceeded
             THEN step'.sent[1].code # 250 /\ step'.sent[1].code >= 400
             ELSE step'.sent[1].code \in {250, 451, 554}]_vars

\* The part of C14 that the code keeps: the sink is drained before the final
\* response, and that response is 250 exactly when the application reported no error.
C14_Drained ==
    [][(DataCompletes /\ server.options.size # 0) =>
          /\ dataCmd'.ended
          /\ ~dataStream'.readable
          /\ Len(step'.sent) = 1
          /\ step'.sent[1].code \in {250, 451, 554}]_vars

\* An oversize body was answered 250.
C14_Oversize250 ==
    /\ server.options.size # 0
    /\ dataStream.sizeExceeded
    /\ dataCmd.closes > 0
    /\ step.op \in {"onData", "end"}
    /\ Answered(step, 250, "OK: message queued")

\* The mechanism an AUTH line names.
AuthMethod(line) ==
    LET args == Tail(splitWhitespace(trim(line)))
    IN  IF args = <<>> THEN <<>> ELSE toUpperCase(Head(args))

\* The mechanism is listed in authMethods and has an implementation.
AuthMethodKnown(line) ==
    /\ \E i \in 1..Len(server.options.authMethods) :
          server.options.authMethods[i] = AuthMethod(line)
    /\ AuthMethod(line) \in SaslMechanisms

\* The transport is secure, or STARTTLS is unsupported or hidden.
AuthTransportOk ==
    \/ conn.secure
    \/ <<"STARTTLS">> \in server.options.disabledCommands
    \/ server.options.hideSTARTTLS

\* handler_AUTH sent exactly this refusal and changed neither user nor nextHandler,
\* and no mechanism ran: no challenge, no call of onAuth.
AuthRefused(code, text) ==
    /\ Len(step'.sent) = 1
    /\ Answered(step', code, text)
    /\ session'.user = session.user
    /\ conn'._nextHandler = conn._nextHandler
    /\ conn'._nextHandler = None
    /\ pending'.onAuth = pending.onAuth
    /\ ~parser'.waiting

\* What the PLAIN mechanism does with the arguments of the line: a syntax error, a
\* challenge that queues PLAIN_token, an invalid token, or a call of onAuth.
SaslInvoked ==
    \/ Answered(step', 501, "Error: syntax: AUTH PLAIN token")
    \/ Len(step'.sent) = 1 /\ step'.sent[1].code = 334
          /\ conn'._nextHandler = Some("PLAIN_token")
    \/ Answered(step', 500, "Error: invalid userdata")
    \/ step'.sent = <<>> /\ pending'.onAuth /\ ~pending.onAuth

C15_Reached503 ==
    /\ step.handler = "handler_AUTH"
    /\ session.user # None
    /\ AuthMethod(step.line) = <<"FOO">>
    /\ Answered(step, 503, "Error: No identity changes permitted")

C15_Reached504 ==
    /\ step.handler = "handler_AUTH"
    /\ Answered(step, 504, "Error: Unrecognized authentication type")

C15_ReachedSasl ==
    /\ step.handler = "handler_AUTH"
    /\ conn.secure
    /\ pending.onAuth

\* close() called a second time changes nothing that the first call did not.
CloseIdempotent == close(close(Cur)) = close(Cur)

\* closing is set only by a step that requested a close, which also removed the
\* Connection from the registry.
ClosingMarksRequest ==
    (~conn._closing /\ conn'._closing) => ~server'.connections /\ ~socket'.writable

\* C16: closing is a two-phase lifecycle: close() is idempotent, closing=true marks
\* a close that was requested and is not yet complete, and once the transport close
\* event has been processed closed is true, closing is false and the Connection is
\* absent from the registry in every later state, whatever events arrive afterwards.
C16_Lifecycle ==
    [][/\ CloseIdempotent
       /\ ClosingMarksRequest
       /\ step'.op = "close" => conn'._closed /\ ~conn'._closing /\ ~server'.connections
       /\ conn._closed => conn'._closed /\ ~conn'._closing /\ ~server'.connections]_vars

\* The part of C16 that the code keeps: close() is idempotent, a requested close
\* removes the Connection from the registry, and after the transport close event
\* closed stays true and the Connection stays out of the registry.
C16_ClosedForGood ==
    /\ []CloseIdempotent
    /\ [](conn._closed => ~server.connections)
    /\ [][/\ ClosingMarksRequest
          /\ step'.op = "close" => conn'._closed /\ ~conn'._closing /\ ~server'.connections
          /\ conn._closed => conn'._closed]_vars

\* closing is true again after the transport close event was processed.
C16_ClosingAfterClosed == conn._closed /\ conn._closing /\ step.op # "close"

\* The line names the key, with a value or as unavailable.
XclientNames(line, key) ==
    \E i \in 1..Len(XclientData(line).data) : XclientData(line).data[i][1] = key

\* An accepted XCLIENT with a LOGIN value sets session.user to that username.
C17_LoginSets ==
    [][(XclientAccepted /\ XclientCarries(step'.line, <<"LOGIN">>)) =>
          session'.user = Some([username |-> XclientValue(step'.line, <<"LOGIN">>)])]_vars

\* C17: an accepted XCLIENT whose LOGIN value is non-empty sets session.user to
\* {username: value}; an accepted XCLIENT whose LOGIN value is empty or unavailable
\* clears session.user, so that with AUTH supported a following MAIL is answered 530.
C17_XclientLogin ==
    [][/\ (XclientAccepted /\ XclientNames(step'.line, <<"LOGIN">>)) =>
             IF XclientCarries(step'.line, <<"LOGIN">>)
             THEN session'.user = Some([username |-> XclientValue(step'.line, <<"LOGIN">>)])
             ELSE session'.user = None
       /\ (/\ step'.op = "command" /\ Verb(step'.line) = <<"MAIL">> /\ ByVerb
           /\ AuthSupported
           /\ <<"LOGIN">> \in DOMAIN conn._xclient /\ conn._xclient[<<"LOGIN">>] = <<>>
           /\ conn.hostNameAppearsAs # <<>>
           /\ ~TenthUnauthenticated) =>
             Answered(step', 530, "Error: authentication Required")]_vars

\* A LOGIN value was accepted and is the user.
C17_LoginSet ==
    /\ step.handler = "handler_XCLIENT"
    /\ Answered(step, 220, "<name> ESMTP")
    /\ XclientCarries(step.line, <<"LOGIN">>)
    /\ session.user = Some([username |-> <<"Bob">>])

\* An XCLIENT with LOGIN=[unavailable] was accepted and the user is still there.
C17_StillAuthenticated ==
    /\ step.handler = "handler_XCLIENT"
    /\ Answered(step, 220, "<name> ESMTP")
    /\ step.line = L_XCLIENT_LOGIN_none
    /\ conn._xclient[<<"LOGIN">>] = <<>>
    /\ session.user # None

\* The step is an XCLIENT command that its handler answered with an error.
XclientRefused ==
    /\ step'.handler = "handler_XCLIENT"
    /\ Len(step'.sent) = 1
    /\ \/ Answered(step', 550, "Error: Not allowed")
       \/ Answered(step', 503, "Error: Mail transaction in progress")
       \/ Answered(step', 501, "Error: Bad command parameter syntax")

\* C18: XCLIENT is transactional: an XCLIENT line answered with an error (550, 503
\* or 501, a valid token followed by a bad one included) applies no effect:
\* remoteAddress, clientHostname, hostNameAppearsAs, session.user and the xclient
\* map are unchanged.  handler_XCLIENT answers with one of these errors or with 220.
C18_Transactional ==
    [][/\ step'.handler = "handler_XCLIENT" =>
             XclientRefused \/ (Len(step'.sent) = 1 /\ XclientAccepted)
       /\ XclientRefused =>
             /\ conn'.remoteAddress = conn.remoteAddress
             /\ conn'.clientHostname = conn.clientHostname
             /\ conn'.hostNameAppearsAs = conn.hostNameAppearsAs
             /\ conn'._xclient = conn._xclient
             /\ session' = session
             /\ ~parser'.waiting]_vars

\* A line whose first token is a valid NAME and whose second token has an unknown key
\* was answered 501 and the NAME was not applied.
C18_Witness ==
    /\ step.handler = "handler_XCLIENT"
    /\ step.line = L_XCLIENT_mixed
    /\ Answered(step, 501, "Error: Bad command parameter syntax")
    /\ XclientData(step.line).data = << <<<<"NAME">>, <<"Relay.Example">>>> >>
    /\ conn.clientHostname # <<"relay.example">>
    /\ <<"NAME">> \notin DOMAIN conn._xclient

C18_Reached503 ==
    /\ step.handler = "handler_XCLIENT"
    /\ Answered(step, 503, "Error: Mail transaction in progress")

C18_Reached550 ==
    /\ step.handler = "handler_XCLIENT"
    /\ Answered(step, 550, "Error: Not allowed")

\* An XCLIENT has recorded the key ADDR.
AddrRecorded == <<"ADDR">> \in DOMAIN conn._xclient

\* The reply of the step advertises XCLIENT.
AdvertisesXclient ==
    \E i \in 1..Len(step'.sent) :
        \E j \in 1..Len(step'.sent[i].data) :
            step'.sent[i].data[j] = "XCLIENT NAME ADDR PORT PROTO HELO LOGIN"

C19_StillAllowed ==
    /\ step.handler = "handler_XCLIENT"
    /\ step.line = L_XCLIENT_ADDR
    /\ Answered(step, 220, "<name> ESMTP")
    /\ DOMAIN conn._xclient = {<<"LOGIN">>, <<"ADDR">>, <<"NAME">>}

\* EHLO after the XCLIENT with ADDR: XCLIENT is not in the list.
C19_NotAdvertised ==
    /\ step.handler = "handler_EHLO"
    /\ server.options.useXClient
    /\ <<"ADDR">> \in DOMAIN conn._xclient
    /\ step.sent[1].code = 250
    /\ \A j \in 1..Len(step.sent[1].data) :
          step.sent[1].data[j] # "XCLIENT NAME ADDR PORT PROTO HELO LOGIN"

\* The step replaced the session: an accepted EHLO or HELO, RSET, or the completion
\* of a DATA command.
SessionReplaced ==
    \/ step'.handler \in {"handler_EHLO", "handler_HELO"} /\ step'.sent[1].code = 250
    \/ step'.handler = "handler_RSET"
    \/ DataCompletes

\* The step is an EHLO or HELO rejected for its number of arguments.
HeloRejected ==
    /\ step'.handler \in {"handler_EHLO", "handler_HELO"}
    /\ step'.sent[1].code = 501

C20_EhloKeepsUser ==
    /\ step.handler = "handler_EHLO"
    /\ step.sent[1].code = 250
    /\ step.before.envelope.mailFrom # None
    /\ session.envelope.mailFrom = None
    /\ session.user # None

\* An EHLO and a HELO with a wrong number of arguments were rejected during a
\* transaction, which goes on.
C20_EhloRejected ==
    /\ step.handler = "handler_EHLO"
    /\ step.sent[1].code = 501
    /\ session.envelope.rcptTo # <<>>
    /\ conn.hostNameAppearsAs # <<>>

C20_HeloRejected ==
    /\ step.handler = "handler_HELO"
    /\ step.sent[1].code = 501
    /\ session.envelope.mailFrom # None
    /\ conn.hostNameAppearsAs # <<>>

\* A handler has queued a continuation and the next line is delivered to the
\* dispatch: the connection is ready and not upgrading, the line is no HTTP request.
C21_Case ==
    /\ step'.op = "command"
    /\ conn._ready /\ ~conn._upgrading /\ ~IsHttpRequest(step'.line)
    /\ conn._nextHandler # None

\* C21: nextHandler is a one-shot continuation: the next command line delivered
\* after a handler queued it is passed to that continuation exactly once whatever
\* its first token is, the slot is already empty when the continuation runs, and
\* the line is not counted as an unrecognized or an unauthenticated command:
\* neither counter changes and no 554 threshold close results from it.
C21_OneShot ==
    [][C21_Case =>
          /\ step'.handler = conn._nextHandler[1]
          /\ conn'._nextHandler = None
          /\ conn'._unrecognizedCommands = conn._unrecognizedCommands
          /\ conn'._unauthenticatedCommands = conn._unauthenticatedCommands
          /\ \A i \in 1..Len(step'.sent) : step'.sent[i].code # 554
          /\ conn'._closing = conn._closing]_vars

\* The part of C21 that the code keeps: the slot is emptied by that line, the line
\* is never counted as unrecognized whatever its first token is, and it is passed
\* to the continuation unless it is the tenth unauthenticated command: with AUTH
\* supported and no user it is counted as one, whatever its first token is.
C21_SlotEmptied ==
    [][C21_Case =>
          /\ conn'._nextHandler = None
          /\ conn'._unrecognizedCommands = conn._unrecognizedCommands
          /\ IF AuthSupported /\ session.user = None
             THEN /\ conn'._unauthenticatedCommands = conn._unauthenticatedCommands + 1
                  /\ IF conn._unauthenticatedCommands = MaxUnauthenticated - 1
                     THEN /\ step'.handler = ""
                          /\ Answered(step', 554, "Error: too many unauthenticated commands")
                          /\ conn'._closing
                     ELSE step'.handler = conn._nextHandler[1]
             ELSE /\ conn'._unauthenticatedCommands = conn._unauthenticatedCommands
                  /\ step'.handler = conn._nextHandler[1]]_vars

\* The line after the 334 challenge was counted as an unauthenticated command.
C21_TokenCounted ==
    /\ step.op = "command"
    /\ step.handler = "PLAIN_token"
    /\ conn._unauthenticatedCommands = 2
    /\ step.line = L_token

\* The line after the 334 challenge was answered 554 and closed the connection.
C21_TokenClosed ==
    /\ step.op = "command"
    /\ step.line = L_token
    /\ step.handler = ""
    /\ Answered(step, 554, "Error: too many unauthenticated commands")
    /\ conn._closing

\* The parser is paused: it has handed a line to oncommand and the continuation has
\* not been called, or it has read the end of a message and waits for continue().
Paused == parser.waiting \/ (parser.dataMode /\ parser.ended)

\* close() was called or the transport has closed.
ClosedOrClosing == conn._closing \/ conn._closed

\* C22: with every collaborator eventually calling back and the data stream
\* eventually emitting 'end', every command line dispatched on an open connection
\* closes the connection or leads to the parser being resumed (the continuation is
\* called, or continue() after DATA): the connection is never paused forever while
\* it is open.
C22_CommandLoop == Paused ~> (~Paused \/ ClosedOrClosing)

\* A command was paused on a collaborator and resumed by its callback, the
\* connection being open.
C22_Witness ==
    /\ step.op \in {"onMailFrom", "onRcptTo", "onAuth", "onData", "end", "immediate"}
    /\ ~Paused
    /\ ~ClosedOrClosing
    /\ ~pending.crashed
    /\ conn._ready

\* The step invokes onMailFrom, onRcptTo or onData.
InvokesMailCollaborator ==
    \/ pending.onMailFrom = None /\ pending'.onMailFrom # None
    \/ pending.onRcptTo = None /\ pending'.onRcptTo # None
    \/ ~pending.onData /\ pending'.onData

\* C23: once close() has been called on a connection, no command handler runs and
\* no collaborator (onMailFrom, onRcptTo, onData) is invoked for any command line
\* that arrives or was buffered after that point, and the session envelope no
\* longer changes.
C23_NothingAfterClose ==
    [][conn._closing =>
          /\ step'.op = "command" => step'.handler = "" /\ ~InvokesMailCollaborator
          /\ session'.envelope = session.envelope]_vars

\* What the code keeps: a close() that _onCommand itself calls (early talker, bad
\* PROXY header, HTTP trap, the two thresholds) leaves the parser paused, so no
\* later line is dispatched before the transport closes; and once the transport
\* close event has been processed no line is dispatched at all.
C23_ParserStopped ==
    /\ [](conn._closed => parser.closed)
    /\ [][/\ (step'.op = "command" /\ step'.handler = "" /\ conn'._closing
              /\ step'.sent # <<>>) => parser'.waiting
          /\ conn._closed => step'.op # "command"]_vars

\* After close() was called (QUIT, a timeout, an onConnect error), a MAIL line ran
\* its handler and onMailFrom was invoked.
C23_MailAfterClose ==
    /\ conn._closing
    /\ ~conn._closed
    /\ step.op = "command"
    /\ step.handler = "handler_MAIL"
    /\ pending.onMailFrom # None

\* After close(), the envelope changed.
C23_EnvelopeAfterClose ==
    /\ conn._closing
    /\ step.op = "onRcptTo"
    /\ step.before.envelope.rcptTo = <<>>
    /\ session.envelope.rcptTo # <<>>

\* The transport close event was processed during a DATA command, and now the
\* callback of onData or the 'end' of the data stream arrives.
C24_Case ==
    /\ conn._closed
    /\ dataCmd.active
    /\ step'.op \in {"onData", "end"}

\* C24: if the transport close event is processed while a DATA command is in
\* progress, a later completion of the onData callback or end of the sink is handled
\* without fault: it dereferences neither the detached data sink nor the released
\* parser, and leaves the connection closed with closed = true.
C24_NoFault ==
    [][C24_Case => ~pending'.crashed /\ conn'._closed]_vars

\* What the code keeps: closed stays true and nothing is sent to the client by such
\* a completion that faults; the only completion handled without fault is the
\* 'end' of a stream for which the callback of onData has not arrived.
C24_ClosedKept ==
    [][C24_Case =>
          /\ conn'._closed
          /\ conn._dataStream = "null"
          /\ pending'.crashed <=> (step'.op = "onData" \/ dataStream.onEnd # None)
          /\ pending'.crashed => step'.sent = <<>> /\ session' = session]_vars

\* The callback of onData arrived after the transport had closed and read
\* this._dataStream.readable from null.
C24_Fault ==
    /\ pending.crashed
    /\ step.op = "onData"
    /\ conn._closed
    /\ conn._dataStream = "null"
    /\ dataCmd.active

\* The step is the callback of onConnect reporting an error: the first reply is the
\* error's.
OnConnectError ==
    /\ step'.op = "onConnect"
    /\ step'.sent # <<>>
    /\ step'.sent[1].code # 220

\* The step is a reverse-lookup reply on a connection that is closing or closed.
LateReverse == step'.op = "reverse" /\ (conn._closing \/ conn._closed)

\* A reverse-lookup reply on a closing or closed connection starts no session,
\* invokes no onConnect, sends nothing and leaves ready false.
C25_LateReverse ==
    LateReverse =>
        /\ session' = session
        /\ ~session'.exists
        /\ pending'.onConnect = None
        /\ step'.sent = <<>>
        /\ ~conn'._ready
        /\ ~parser'.waiting => ~parser.waiting

\* C25: onConnect gates acceptance: when onConnect reports an error, the error
\* reply (err.responseCode or 554) is sent and the connection is closed, ready
\* never becomes true, no 220 greeting is sent afterwards and no command handler
\* ever runs on that connection; a reverse-lookup reply that arrives when the
\* connection is closing or closed starts no session, invokes no onConnect and
\* leaves ready false.
C25_ConnectGate ==
    [][/\ OnConnectError =>
             /\ step'.sent[1].code \in {451, 554}
             /\ conn'._closing
             /\ ~server'.connections
             /\ ~conn'._ready
             /\ Len(step'.sent) = 1
       /\ (step'.op = "command" /\ conn._closing /\ ~conn._ready) => step'.handler = ""
       /\ C25_LateReverse]_vars

\* What the code keeps: the error reply is sent first and the connection is closed
\* and out of the registry, the greeting that follows is not written to the socket,
\* and the late reverse-lookup reply does nothing.  ready is set all the same.
C25_RejectedButReady ==
    [][/\ OnConnectError =>
             /\ step'.sent[1].code \in {451, 554}
             /\ conn'._closing
             /\ ~server'.connections
             /\ conn'._ready
             /\ Len(step'.sent) = 2
             /\ step'.sent[2].code = 220
             /\ ~step'.sent[2].written
       /\ C25_LateReverse]_vars

\* onConnect reported an error and the connection is ready.
C25_ReadyAfterError ==
    /\ step.op = "onConnect"
    /\ Len(step.sent) = 2
    /\ step.sent[1].code = 554
    /\ step.sent[1].written
    /\ step.sent[2].code = 220
    /\ conn._ready
    /\ conn._closing

\* A reverse-lookup reply arrived on a closed connection.
C25_ReverseAfterClose ==
    /\ step.op = "reverse"
    /\ conn._closed
    /\ ~conn._ready
    /\ pending.onConnect = None

====
